---------------------------- MODULE Spec2Model ----------------------------
(***************************************************************************)
(* A model of app/src/main.py: the SampleApp vehicle app.                  *)
(*                                                                         *)
(* The app owns three handlers (on_speed_change, on_crashed_change,        *)
(* on_get_speed_request_received), the start-up hook on_start and the      *)
(* process entrypoint main() with its event loop.  The data broker, the    *)
(* topic transport and the operating system are the environment: they      *)
(* change the speed signal, deliver requests, make a read, a subscribe or  *)
(* a publish succeed or raise, and send SIGTERM.                           *)
(*                                                                         *)
(* Text (topic payloads, log arguments) is a sequence of one-character     *)
(* strings, so that json.dumps and the f-string are computed character by  *)
(* character and can be parsed back.                                       *)
(***************************************************************************)
EXTENDS Integers, Sequences, FiniteSets, TLC

(***************************************************************************)
(* Bounds of the model.                                                    *)
(***************************************************************************)
\* Events the environment delivers in one run: signal changes and requests.
MaxEvents == 2

(***************************************************************************)
(* Speed values.  A value is an int n, or the float nearest to n/10 (the   *)
(* Speed signal is a float; a Python int is kept for the spec's example).  *)
(***************************************************************************)
PyInt(n) == [kind |-> "int", n |-> n]
PyFloat(tenths) == [kind |-> "float", n |-> tenths]

\* The values the signal changes to: 42 and -0.5.
Speeds == {PyInt(42), PyFloat(-5)}
\* The broker's value before the first change: 0.0.
InitialSpeed == PyFloat(0)

\* Request payloads: "anything" and a text that looks like a speed.
Payloads == { <<"a","n","y","t","h","i","n","g">>, <<"9","9">> }

(***************************************************************************)
(* Topics (main.py lines 41-46).                                           *)
(***************************************************************************)
GET_SPEED_REQUEST_TOPIC == "sampleapp/getSpeed"
\* The response topic set to the request topic.
GET_SPEED_RESPONSE_TOPIC_AsRequest == GET_SPEED_REQUEST_TOPIC
GET_SPEED_RESPONSE_TOPIC == "sampleapp/getSpeed/response"
DATABROKER_SUBSCRIPTION_TOPIC_SPEED == "sampleapp/currentSpeed"
DATABROKER_SUBSCRIPTION_TOPIC_CRASHED == "sampleapp/crashed"

(***************************************************************************)
(* Python's number formatting: int.__repr__ and float.__repr__ (the        *)
(* shortest text that reads back as the same float, which for the float    *)
(* nearest to n/10 is n/10 written with one fractional digit).             *)
(***************************************************************************)
Abs(n) == IF n < 0 THEN -n ELSE n

Digit(d) ==
    CASE d = 0 -> "0" [] d = 1 -> "1" [] d = 2 -> "2" [] d = 3 -> "3"
      [] d = 4 -> "4" [] d = 5 -> "5" [] d = 6 -> "6" [] d = 7 -> "7"
      [] d = 8 -> "8" [] d = 9 -> "9"

RECURSIVE NatRepr(_)
NatRepr(n) ==
    IF n < 10 THEN <<Digit(n)>> ELSE NatRepr(n \div 10) \o <<Digit(n % 10)>>

Sign(n) == IF n < 0 THEN <<"-">> ELSE <<>>

IntRepr(n) == Sign(n) \o NatRepr(Abs(n))

FloatRepr(tenths) ==
    Sign(tenths) \o NatRepr(Abs(tenths) \div 10) \o <<".">>
        \o <<Digit(Abs(tenths) % 10)>>

\* str(v), which is what an f-string's {v} and the log's %s write.
PyStr(v) == IF v.kind = "int" THEN IntRepr(v.n) ELSE FloatRepr(v.n)

(***************************************************************************)
(* json.dumps with its default separators (", " and ": ").                 *)
(***************************************************************************)
JsonNumber(v) == PyStr(v)

JsonBool(b) == IF b THEN <<"t","r","u","e">> ELSE <<"f","a","l","s","e">>

RECURSIVE JsonEscape(_)
JsonEscape(s) ==
    IF s = <<>> THEN <<>>
    ELSE (IF Head(s) \in {"\"", "\\"} THEN <<"\\", Head(s)>> ELSE <<Head(s)>>)
             \o JsonEscape(Tail(s))

JsonString(s) == <<"\"">> \o JsonEscape(s) \o <<"\"">>

\* {"key": value}
JsonObject1(key, valueText) ==
    <<"{">> \o JsonString(key) \o <<":", " ">> \o valueText \o <<"}">>

\* {"k1": v1, "k2": v2}
JsonObject2(k1, v1, k2, v2) ==
    <<"{">> \o JsonString(k1) \o <<":", " ">> \o v1 \o <<",", " ">>
        \o JsonString(k2) \o <<":", " ">> \o v2 \o <<"}">>

KEY_SPEED == <<"s","p","e","e","d">>
\* The key ends in a space (main.py line 136).
KEY_CRASHED == <<"c","r","a","s","h","e","d"," ">>
KEY_RESULT == <<"r","e","s","u","l","t">>
KEY_STATUS == <<"s","t","a","t","u","s">>
KEY_MESSAGE == <<"m","e","s","s","a","g","e">>
CURRENT_SPEED_PREFIX ==
    <<"C","u","r","r","e","n","t"," ","S","p","e","e","d"," ","="," ">>

\* SpeedPayload with the value cast to int first: json.dumps({"speed":
\* int(vehicle_speed)}).  int() drops the fraction, towards zero.
SpeedPayload_IntCast(vehicle_speed) ==
    JsonObject1(KEY_SPEED,
        IntRepr(IF vehicle_speed.kind = "int" THEN vehicle_speed.n
                ELSE IF vehicle_speed.n < 0 THEN -(Abs(vehicle_speed.n) \div 10)
                ELSE vehicle_speed.n \div 10))

\* json.dumps({"speed": vehicle_speed})
SpeedPayload(vehicle_speed) == JsonObject1(KEY_SPEED, JsonNumber(vehicle_speed))

\* json.dumps({"crashed ": vehicle_crashed})
CrashedPayload(vehicle_crashed) == JsonObject1(KEY_CRASHED, JsonBool(vehicle_crashed))

\* f"""Current Speed = {vehicle_speed}"""
ResponseMessage(vehicle_speed) == CURRENT_SPEED_PREFIX \o PyStr(vehicle_speed)

\* The status the request handler writes.
RESPONSE_STATUS == 0

\* ResponsePayload with the status 1 in place of 0.
ResponsePayload_StatusOne(vehicle_speed) ==
    JsonObject1(KEY_RESULT,
        JsonObject2(KEY_STATUS, IntRepr(RESPONSE_STATUS + 1),
                    KEY_MESSAGE, JsonString(ResponseMessage(vehicle_speed))))

\* json.dumps({"result": {"status": 0, "message": f"..."}})
ResponsePayload(vehicle_speed) ==
    JsonObject1(KEY_RESULT,
        JsonObject2(KEY_STATUS, IntRepr(RESPONSE_STATUS),
                    KEY_MESSAGE, JsonString(ResponseMessage(vehicle_speed))))


(***************************************************************************)
(* random.random() < 0.01, with the draw in thousandths: a draw d stands   *)
(* for the number d/1000 of [0, 1).                                        *)
(***************************************************************************)
CRASH_THRESHOLD_MILLI == 10
RandomDraws == {0, 9, 10, 999}

\* random_vehicle_crash (main.py lines 94-98) for the draw it made.
random_vehicle_crash(draw) ==
    LET crashed == draw < CRASH_THRESHOLD_MILLI
    IN  IF crashed THEN TRUE ELSE FALSE

(***************************************************************************)
(* State.                                                                  *)
(***************************************************************************)
VARIABLES
    mainPc,         \* where main() is: "start", "constructed", "running", "exited"
    exit,           \* how the process ended: "none", or the way it ended
    sigterm,        \* SIGTERM has been delivered
    onStartPc,      \* where on_start is
    subs,           \* callbacks registered on Vehicle.Speed, in order
    subscribeCalls, \* the subscribe calls on_start made, with their outcome
    brokerSpeed,    \* the broker's current value of Vehicle.Speed
    changes,        \* the signal changes so far: change i is changes[i]
    streams,        \* per registered callback, its notifications not yet handled
    speedTask,      \* on_speed_change waiting in publish_event, if any
    requests,       \* payloads received on the request topic: request i
    reqTasks,       \* on_get_speed_request_received invocations in flight
    reads,          \* the point reads made, with their outcome
    trials,         \* the crash trials made, with their result
    speedLog,       \* records of the "speed" logger
    published       \* the publish_event calls made, with their outcome

vars == <<mainPc, exit, sigterm, onStartPc, subs, subscribeCalls, brokerSpeed,
          changes, streams, speedTask, requests, reqTasks, reads, trials,
          speedLog, published>>

procVars == <<mainPc, exit, sigterm>>
startVars == <<onStartPc, subs, subscribeCalls>>
brokerVars == <<brokerSpeed, changes>>
requestVars == <<requests, reqTasks, reads>>

ON_SPEED_CHANGE == "on_speed_change"
ON_CRASHED_CHANGE == "on_crashed_change"
ON_GET_SPEED_REQUEST == "on_get_speed_request_received"
Callbacks == {ON_SPEED_CHANGE, ON_CRASHED_CHANGE}

\* A local variable not assigned yet.
Unset == [kind |-> "unset", n |-> 0]

\* The members of a sequence.
Range(s) == {s[i] : i \in 1..Len(s)}

Init ==
    /\ mainPc = "start"
    /\ exit = "none"
    /\ sigterm = FALSE
    /\ onStartPc = "idle"
    /\ subs = <<>>
    /\ subscribeCalls = <<>>
    /\ brokerSpeed = InitialSpeed
    /\ changes = <<>>
    /\ streams = [c \in Callbacks |-> <<>>]
    /\ speedTask = <<>>
    /\ requests = <<>>
    /\ reqTasks = {}
    /\ reads = <<>>
    /\ trials = <<>>
    /\ speedLog = <<>>
    /\ published = <<>>

\* The event loop is running main() and whatever main() started.
Alive == exit = "none"
Serving == Alive /\ mainPc = "running"

\* One publish_event call: the message handed to the transport, who made the
\* call and for which event, and whether the call returned or raised.
PublishEvent(topic, payload, handler, cause, ok) ==
    published' = Append(published,
        [topic |-> topic, payload |-> payload, handler |-> handler,
         cause |-> cause, ok |-> ok])

(***************************************************************************)
(* main() and the event loop (main.py lines 195-207).                      *)
(***************************************************************************)
\* vehicle_app = SampleApp(vehicle)
Construct ==
    /\ Alive /\ mainPc = "start"
    /\ mainPc' = "constructed"
    /\ UNCHANGED <<exit, sigterm, startVars, brokerVars, streams, speedTask,
                   requestVars, trials, speedLog, published>>

\* await vehicle_app.run(): the SDK subscribes the annotated topic handler and
\* calls on_start.
RunStarts ==
    /\ Alive /\ mainPc = "constructed"
    /\ mainPc' = "running"
    /\ onStartPc' = "subscribe_speed"
    /\ UNCHANGED <<exit, sigterm, subs, subscribeCalls, brokerVars, streams,
                   speedTask, requestVars, trials, speedLog, published>>

\* vehicle_app.run() returns (it awaits on_start, so not before on_start has);
\* the next line, await app.run(), names app, which nothing defines: NameError
\* leaves main() and run_until_complete.
RunCompletes ==
    /\ Serving
    /\ onStartPc = "done"
    /\ mainPc' = "exited"
    /\ exit' = "NameError"
    /\ UNCHANGED <<sigterm, startVars, brokerVars, streams, speedTask,
                   requestVars, trials, speedLog, published>>

\* SIGTERM: the handler is LOOP.stop.  main() has not finished (it cannot
\* finish normally), so run_until_complete raises RuntimeError("Event loop
\* stopped before Future completed.") and LOOP.close() is not reached.
Sigterm ==
    /\ Alive
    /\ sigterm' = TRUE
    /\ mainPc' = "exited"
    /\ exit' = "RuntimeError"
    /\ UNCHANGED <<startVars, brokerVars, streams, speedTask, requestVars,
                   trials, speedLog, published>>

(***************************************************************************)
(* on_start (main.py lines 105-111).                                       *)
(***************************************************************************)
\* Subscribe with the failure caught: on_start goes on to its next line.
Subscribe_ContinuesOnFailure(at, callback, next, ok) ==
    /\ Serving /\ onStartPc = at
    /\ subscribeCalls' = Append(subscribeCalls, [callback |-> callback, ok |-> ok])
    /\ subs' = IF ok THEN Append(subs, callback) ELSE subs
    /\ onStartPc' = next
    /\ UNCHANGED <<procVars, brokerVars, streams, speedTask, requestVars,
                   trials, speedLog, published>>

\* One subscribe call of on_start: registered if it returns; if it raises,
\* on_start ends there.
Subscribe(at, callback, next, ok) ==
    /\ Serving /\ onStartPc = at
    /\ subscribeCalls' = Append(subscribeCalls, [callback |-> callback, ok |-> ok])
    /\ subs' = IF ok THEN Append(subs, callback) ELSE subs
    /\ onStartPc' = IF ok THEN next ELSE "failed"
    /\ UNCHANGED <<procVars, brokerVars, streams, speedTask, requestVars,
                   trials, speedLog, published>>

\* await self.Vehicle.Speed.subscribe(self.on_speed_change)
SubscribeSpeed(ok) ==
    Subscribe("subscribe_speed", ON_SPEED_CHANGE, "subscribe_crashed", ok)

\* await self.Vehicle.Speed.subscribe(self.on_crashed_change)
SubscribeCrashed(ok) ==
    Subscribe("subscribe_crashed", ON_CRASHED_CHANGE, "done", ok)

(***************************************************************************)
(* The broker: the speed signal changes and every registered callback's    *)
(* stream gets the notification.                                           *)
(***************************************************************************)
SignalChange(v) ==
    /\ Serving
    /\ Len(changes) + Len(requests) < MaxEvents
    /\ brokerSpeed' = v
    /\ changes' = Append(changes, [value |-> v, started |-> onStartPc = "done",
                                   notified |-> Range(subs)])
    /\ streams' = [c \in Callbacks |->
                     IF c \in Range(subs)
                     THEN Append(streams[c], [id |-> Len(changes) + 1, value |-> v])
                     ELSE streams[c]]
    /\ UNCHANGED <<procVars, startVars, speedTask, requestVars, trials,
                   speedLog, published>>

(***************************************************************************)
(* on_speed_change (main.py lines 113-129).                                *)
(***************************************************************************)
\* "vehicle_speed %s" % vehicle_speed
SpeedLogMessage(vehicle_speed) ==
    <<"v","e","h","i","c","l","e","_","s","p","e","e","d"," ">> \o PyStr(vehicle_speed)

\* OnSpeedChangeLog without the logger call of line 122.
OnSpeedChangeLog_Silent ==
    /\ Serving
    /\ speedTask = <<>>
    /\ streams[ON_SPEED_CHANGE] # <<>>
    /\ LET data == Head(streams[ON_SPEED_CHANGE])
       IN  speedTask' = <<[id |-> data.id, vehicle_speed |-> data.value]>>
    /\ streams' = [streams EXCEPT ![ON_SPEED_CHANGE] = Tail(@)]
    /\ UNCHANGED <<procVars, startVars, brokerVars, requestVars, trials,
                   speedLog, published>>

\* Lines 119-122 and the call of publish_event: the value is taken from the
\* notification and logged; the handler then waits in publish_event.
OnSpeedChangeLog ==
    /\ Serving
    /\ speedTask = <<>>
    /\ streams[ON_SPEED_CHANGE] # <<>>
    /\ LET data == Head(streams[ON_SPEED_CHANGE])
           vehicle_speed == data.value
       IN  /\ speedLog' = Append(speedLog,
                              [cause |-> data.id, message |-> SpeedLogMessage(vehicle_speed)])
           /\ speedTask' = <<[id |-> data.id, vehicle_speed |-> vehicle_speed]>>
    /\ streams' = [streams EXCEPT ![ON_SPEED_CHANGE] = Tail(@)]
    /\ UNCHANGED <<procVars, startVars, brokerVars, requestVars, trials, published>>

\* Lines 126-129: publish_event returns or raises; either way the handler ends.
OnSpeedChangePublish(ok) ==
    /\ Serving
    /\ speedTask # <<>>
    /\ LET t == Head(speedTask)
       IN  PublishEvent(DATABROKER_SUBSCRIPTION_TOPIC_SPEED,
                        SpeedPayload(t.vehicle_speed), ON_SPEED_CHANGE, t.id, ok)
    /\ speedTask' = <<>>
    /\ UNCHANGED <<procVars, startVars, brokerVars, streams, requestVars,
                   trials, speedLog>>

(***************************************************************************)
(* on_crashed_change (main.py lines 131-137).                              *)
(***************************************************************************)
\* OnCrashedChange without the test of line 133: it publishes the trial's
\* result, true or false.
OnCrashedChange_AlwaysPublishes(draw, ok) ==
    /\ Serving
    /\ streams[ON_CRASHED_CHANGE] # <<>>
    /\ LET data == Head(streams[ON_CRASHED_CHANGE])
           vehicle_crashed == random_vehicle_crash(draw)
       IN  /\ trials' = Append(trials, [cause |-> data.id, crashed |-> vehicle_crashed])
           /\ PublishEvent(DATABROKER_SUBSCRIPTION_TOPIC_CRASHED,
                           CrashedPayload(vehicle_crashed),
                           ON_CRASHED_CHANGE, data.id, ok)
    /\ streams' = [streams EXCEPT ![ON_CRASHED_CHANGE] = Tail(@)]
    /\ UNCHANGED <<procVars, startVars, brokerVars, speedTask, requestVars, speedLog>>

\* Lines 132-137: the trial, and the publish when it is true.  Nothing waits
\* between them: random_vehicle_crash never suspends.
OnCrashedChange(draw, ok) ==
    /\ Serving
    /\ streams[ON_CRASHED_CHANGE] # <<>>
    /\ LET data == Head(streams[ON_CRASHED_CHANGE])
           vehicle_crashed == random_vehicle_crash(draw)
       IN  /\ trials' = Append(trials, [cause |-> data.id, crashed |-> vehicle_crashed])
           /\ IF vehicle_crashed
              THEN PublishEvent(DATABROKER_SUBSCRIPTION_TOPIC_CRASHED,
                                CrashedPayload(vehicle_crashed),
                                ON_CRASHED_CHANGE, data.id, ok)
              ELSE /\ ok
                   /\ UNCHANGED published
    /\ streams' = [streams EXCEPT ![ON_CRASHED_CHANGE] = Tail(@)]
    /\ UNCHANGED <<procVars, startVars, brokerVars, speedTask, requestVars, speedLog>>

(***************************************************************************)
(* on_get_speed_request_received (main.py lines 139-167).                  *)
(***************************************************************************)
\* A message arrives on GET_SPEED_REQUEST_TOPIC: the handler starts, writes its
\* debug line and waits in Vehicle.Speed.get().
RequestReceived(data) ==
    /\ Serving
    /\ Len(changes) + Len(requests) < MaxEvents
    /\ requests' = Append(requests, data)
    /\ reqTasks' = reqTasks \cup
           {[id |-> Len(requests) + 1, data |-> data, pc |-> "get",
             vehicle_speed |-> Unset]}
    /\ UNCHANGED <<procVars, startVars, brokerVars, streams, speedTask, reads,
                   trials, speedLog, published>>

\* GetSpeed with the failure caught: the handler goes on with the speed 0.0.
GetSpeed_SwallowsFailure(t, ok) ==
    /\ Serving
    /\ t \in reqTasks /\ t.pc = "get"
    /\ reads' = Append(reads, [req |-> t.id, ok |-> ok, value |-> brokerSpeed])
    /\ reqTasks' = (reqTasks \ {t}) \cup
           {[t EXCEPT !.pc = "publish",
                      !.vehicle_speed = IF ok THEN brokerSpeed ELSE InitialSpeed]}
    /\ UNCHANGED <<procVars, startVars, brokerVars, streams, speedTask, requests,
                   trials, speedLog, published>>

\* Line 153: the read returns the broker's value at that moment, or raises and
\* the exception leaves the handler.
GetSpeed(t, ok) ==
    /\ Serving
    /\ t \in reqTasks /\ t.pc = "get"
    /\ reads' = Append(reads, [req |-> t.id, ok |-> ok,
                               value |-> IF ok THEN brokerSpeed ELSE Unset])
    /\ reqTasks' = IF ok
                   THEN (reqTasks \ {t}) \cup
                            {[t EXCEPT !.pc = "publish", !.vehicle_speed = brokerSpeed]}
                   ELSE reqTasks \ {t}
    /\ UNCHANGED <<procVars, startVars, brokerVars, streams, speedTask, requests,
                   trials, speedLog, published>>

\* ResponseValue taken from the broker's value when the response is built.
ResponseValue_Latest(t) == brokerSpeed

\* The value the response is built from: the one this invocation read.
ResponseValue(t) == t.vehicle_speed

\* Lines 157-167.
PublishResponse(t, ok) ==
    /\ Serving
    /\ t \in reqTasks /\ t.pc = "publish"
    /\ PublishEvent(GET_SPEED_RESPONSE_TOPIC, ResponsePayload(ResponseValue(t)),
                    ON_GET_SPEED_REQUEST, t.id, ok)
    /\ reqTasks' = reqTasks \ {t}
    /\ UNCHANGED <<procVars, startVars, brokerVars, streams, speedTask, requests,
                   reads, trials, speedLog>>

(***************************************************************************)
(* The specification.                                                      *)
(***************************************************************************)
Next ==
    \/ Construct
    \/ RunStarts
    \/ RunCompletes
    \/ Sigterm
    \/ \E ok \in BOOLEAN : SubscribeSpeed(ok)
    \/ \E ok \in BOOLEAN : SubscribeCrashed(ok)
    \/ \E v \in Speeds : SignalChange(v)
    \/ OnSpeedChangeLog
    \/ \E ok \in BOOLEAN : OnSpeedChangePublish(ok)
    \/ \E draw \in RandomDraws, ok \in BOOLEAN : OnCrashedChange(draw, ok)
    \/ \E data \in Payloads : RequestReceived(data)
    \/ \E t \in reqTasks, ok \in BOOLEAN : GetSpeed(t, ok)
    \/ \E t \in reqTasks, ok \in BOOLEAN : PublishResponse(t, ok)

Spec == Init /\ [][Next]_vars

(***************************************************************************)
(* Reading a payload back, as json.loads does for the texts above: the     *)
(* subscriber's side of the topics.  Each form has a test (Is...) and a    *)
(* reader (Parse...) that is meant for the texts that pass the test.       *)
(***************************************************************************)
\* What ParseNumber makes of a text that is no number.
Invalid == [kind |-> "invalid", n |-> 0]

HasPrefix(s, p) == Len(s) >= Len(p) /\ SubSeq(s, 1, Len(p)) = p
HasSuffix(s, p) == Len(s) >= Len(p) /\ SubSeq(s, Len(s) - Len(p) + 1, Len(s)) = p
DropPrefix(s, p) == SubSeq(s, Len(p) + 1, Len(s))
DropSuffix(s, p) == SubSeq(s, 1, Len(s) - Len(p))

DigitChars == {"0", "1", "2", "3", "4", "5", "6", "7", "8", "9"}

DigitValue(c) ==
    CASE c = "0" -> 0 [] c = "1" -> 1 [] c = "2" -> 2 [] c = "3" -> 3
      [] c = "4" -> 4 [] c = "5" -> 5 [] c = "6" -> 6 [] c = "7" -> 7
      [] c = "8" -> 8 [] c = "9" -> 9

IsDigits(s) == Len(s) >= 1 /\ \A i \in 1..Len(s) : s[i] \in DigitChars

RECURSIVE DigitsValue(_)
DigitsValue(s) ==
    IF s = <<>> THEN 0
    ELSE 10 * DigitsValue(SubSeq(s, 1, Len(s) - 1)) + DigitValue(s[Len(s)])

\* A JSON number: digits read as an int; digits "." digit as the float of that
\* many tenths.
ParseNumber(text) ==
    LET neg == HasPrefix(text, <<"-">>)
        body == IF neg THEN Tail(text) ELSE text
        sgn == IF neg THEN -1 ELSE 1
        dots == {i \in 1..Len(body) : body[i] = "."}
    IN  IF dots = {}
        THEN IF IsDigits(body) THEN PyInt(sgn * DigitsValue(body)) ELSE Invalid
        ELSE LET d == CHOOSE i \in dots : TRUE
                 whole == SubSeq(body, 1, d - 1)
                 frac == SubSeq(body, d + 1, Len(body))
             IN  IF Cardinality(dots) = 1 /\ IsDigits(whole) /\ IsDigits(frac)
                    /\ Len(frac) = 1
                 THEN PyFloat(sgn * (10 * DigitsValue(whole) + DigitsValue(frac)))
                 ELSE Invalid

IsBool(text) == text \in {<<"t","r","u","e">>, <<"f","a","l","s","e">>}
ParseBool(text) == text = <<"t","r","u","e">>

RECURSIVE JsonUnescape(_)
JsonUnescape(s) ==
    IF s = <<>> THEN <<>>
    ELSE IF Head(s) = "\\" /\ Len(s) >= 2
         THEN <<s[2]>> \o JsonUnescape(SubSeq(s, 3, Len(s)))
         ELSE <<Head(s)>> \o JsonUnescape(Tail(s))

\* A JSON string is quoted, and a quote inside it is escaped.
IsString(text) ==
    /\ Len(text) >= 2 /\ Head(text) = "\"" /\ text[Len(text)] = "\""
    /\ \A i \in 2..(Len(text) - 1) :
           text[i] = "\"" => (i > 2 /\ text[i - 1] = "\\")
ParseString(text) == JsonUnescape(SubSeq(text, 2, Len(text) - 1))

\* {"key": <text>}: an object of one member, and the text of its value.
MemberOpen(key) == <<"{">> \o JsonString(key) \o <<":", " ">>
IsObject1(text, key) ==
    /\ HasPrefix(text, MemberOpen(key)) /\ HasSuffix(text, <<"}">>)
    /\ Len(text) > Len(MemberOpen(key)) + 1
MemberText(text, key) == DropSuffix(DropPrefix(text, MemberOpen(key)), <<"}">>)

\* {"speed": <number>}
IsSpeedMessage(payload) ==
    /\ IsObject1(payload, <<"s","p","e","e","d">>)
    /\ ParseNumber(MemberText(payload, <<"s","p","e","e","d">>)) # Invalid
ParseSpeedMessage(payload) ==
    ParseNumber(MemberText(payload, <<"s","p","e","e","d">>))

\* {"crashed ": <boolean>}
IsCrashedMessage(payload) ==
    /\ IsObject1(payload, <<"c","r","a","s","h","e","d"," ">>)
    /\ IsBool(MemberText(payload, <<"c","r","a","s","h","e","d"," ">>))
ParseCrashedMessage(payload) ==
    ParseBool(MemberText(payload, <<"c","r","a","s","h","e","d"," ">>))

\* {"result": {"status": <int>, "message": <string>}}
StatusOpen == <<"{", "\"", "s","t","a","t","u","s", "\"", ":", " ">>
MessageSep == <<",", " ", "\"", "m","e","s","s","a","g","e", "\"", ":", " ">>
ResultText(payload) == MemberText(payload, <<"r","e","s","u","l","t">>)
ResultMembers(payload) ==
    DropSuffix(DropPrefix(ResultText(payload), StatusOpen), <<"}">>)
\* Where ", "message": " starts in the members' text (0: nowhere).
MessageCut(rest) ==
    LET cuts == {i \in 1..(Len(rest) - Len(MessageSep) + 1) :
                    SubSeq(rest, i, i + Len(MessageSep) - 1) = MessageSep}
    IN  IF cuts = {} THEN 0 ELSE CHOOSE i \in cuts : \A j \in cuts : i <= j
StatusText(payload) ==
    SubSeq(ResultMembers(payload), 1, MessageCut(ResultMembers(payload)) - 1)
MessageText(payload) ==
    SubSeq(ResultMembers(payload),
           MessageCut(ResultMembers(payload)) + Len(MessageSep),
           Len(ResultMembers(payload)))
IsResponse(payload) ==
    /\ IsObject1(payload, <<"r","e","s","u","l","t">>)
    /\ HasPrefix(ResultText(payload), StatusOpen)
    /\ HasSuffix(ResultText(payload), <<"}">>)
    /\ Len(ResultText(payload)) > Len(StatusOpen)
    /\ MessageCut(ResultMembers(payload)) > 1
    /\ ParseNumber(StatusText(payload)).kind = "int"
    /\ IsString(MessageText(payload))
ParseResponse(payload) ==
    [status |-> ParseNumber(StatusText(payload)).n,
     message |-> ParseString(MessageText(payload))]

(***************************************************************************)
(* Every text a handler can hand to publish_event for the speed values of  *)
(* the model, and what a subscriber reads in each.  The readings depend on *)
(* no state and are computed once.                                         *)
(***************************************************************************)
SpeedValues == Speeds \cup {InitialSpeed}

PublishableTexts ==
    {SpeedPayload(v) : v \in SpeedValues}
        \cup {CrashedPayload(b) : b \in BOOLEAN}
        \cup {ResponsePayload(v) : v \in SpeedValues}

Reading ==
    [p \in PublishableTexts |->
        [isSpeed |-> IsSpeedMessage(p),
         speed |-> IF IsSpeedMessage(p) THEN ParseSpeedMessage(p) ELSE Invalid,
         isCrashed |-> IsCrashedMessage(p),
         crashed |-> IsCrashedMessage(p) /\ ParseCrashedMessage(p),
         isResponse |-> IsResponse(p),
         status |-> IF IsResponse(p) THEN ParseResponse(p).status ELSE -1,
         message |-> IF IsResponse(p) THEN ParseResponse(p).message ELSE <<>>]]

(***************************************************************************)
(* The number texts over a wider range of speeds than the runs of the      *)
(* model visit: every int and every float of one fractional digit up to    *)
(* MaxSpeedChecked, of either sign.                                        *)
(***************************************************************************)
MaxSpeedChecked == 130

NumberDomain ==
    {PyInt(n) : n \in (-MaxSpeedChecked)..MaxSpeedChecked}
        \cup {PyFloat(t) : t \in (-10 * MaxSpeedChecked)..(10 * MaxSpeedChecked)}

\* The speed member of the echo payload reads back as the value written.
SpeedRoundTrip ==
    \A v \in NumberDomain :
        /\ IsSpeedMessage(SpeedPayload(v))
        /\ ParseSpeedMessage(SpeedPayload(v)) = v

\* The response's message is the lead followed by a number that reads back as
\* the value written.
MessageRoundTrip ==
    \A v \in NumberDomain :
        /\ IsResponse(ResponsePayload(v))
        /\ LET message == ParseResponse(ResponsePayload(v)).message
           IN  /\ HasPrefix(message, CURRENT_SPEED_PREFIX)
               /\ ParseNumber(DropPrefix(message, CURRENT_SPEED_PREFIX)) = v

(***************************************************************************)
(* What the claims speak of.                                               *)
(***************************************************************************)
\* The publish_event calls a handler made for one event.
PublishedBy(handler, cause) ==
    {i \in 1..Len(published) :
        published[i].handler = handler /\ published[i].cause = cause}

\* The publish_event calls on a topic.
PublishedOn(topic) == {i \in 1..Len(published) : published[i].topic = topic}

\* on_speed_change has run to its end for the notification of change n.
SpeedHandlerDone(n) ==
    /\ \E e \in Range(speedLog) : e.cause = n
    /\ \A t \in Range(speedTask) : t.id # n

\* The request handler has been started for request r and has ended.
RequestHandlerDone(r) ==
    /\ r \in 1..Len(requests)
    /\ \A t \in reqTasks : t.id # r

(***************************************************************************)
(* The readers on the texts the app writes, for a quick look.              *)
(***************************************************************************)
ParseExamples ==
    /\ SpeedPayload(PyInt(42)) = <<"{","\"","s","p","e","e","d","\"",":"," ","4","2","}">>
    /\ ParseSpeedMessage(SpeedPayload(PyFloat(-5))) = PyFloat(-5)
    /\ IsSpeedMessage(SpeedPayload(PyFloat(1200)))
    /\ ~IsSpeedMessage(CrashedPayload(TRUE))
    /\ IsCrashedMessage(CrashedPayload(TRUE)) /\ ParseCrashedMessage(CrashedPayload(TRUE))
    /\ IsResponse(ResponsePayload(PyFloat(-5)))
    /\ ~IsResponse(SpeedPayload(PyInt(42)))
    /\ ParseResponse(ResponsePayload(PyFloat(425))).status = 0
    /\ ParseResponse(ResponsePayload(PyFloat(425))).message
           = CURRENT_SPEED_PREFIX \o <<"4","2",".","5">>
    /\ ParseNumber(<<"4","2",".">>) = Invalid
    /\ ParseNumber(<<"-">>) = Invalid

(***************************************************************************)
(* The claims.                                                             *)
(***************************************************************************)

\* C1: for every notification delivered to on_speed_change, carrying the speed
\* v, the handler makes exactly one publish, to "sampleapp/currentSpeed", of
\* the JSON object {"speed": v} whose speed member reads back as v exactly; it
\* publishes to no other topic.  The last line: the same reading back for
\* every number of NumberDomain.
C1_EchoPublishesSpeed ==
    /\ \A i \in 1..Len(published) :
           published[i].handler = ON_SPEED_CHANGE =>
               /\ published[i].topic = "sampleapp/currentSpeed"
               /\ published[i].cause \in 1..Len(changes)
               /\ Reading[published[i].payload].isSpeed
               /\ Reading[published[i].payload].speed
                      = changes[published[i].cause].value
    /\ \A n \in 1..Len(changes) :
           /\ SpeedHandlerDone(n) => Cardinality(PublishedBy(ON_SPEED_CHANGE, n)) = 1
           /\ ~SpeedHandlerDone(n) => PublishedBy(ON_SPEED_CHANGE, n) = {}
    /\ SpeedRoundTrip

\* C1's case: the speed -0.5 has been echoed, and so has the speed 42.
C1_Witness ==
    /\ \E i \in 1..Len(published) :
           /\ published[i].handler = ON_SPEED_CHANGE
           /\ changes[published[i].cause].value = PyFloat(-5)
    /\ \E i \in 1..Len(published) :
           /\ published[i].handler = ON_SPEED_CHANGE
           /\ changes[published[i].cause].value = PyInt(42)

\* The read of request r, when it has been made.
ReadsOf(r) == {j \in 1..Len(reads) : reads[j].req = r}

\* C2: for every request whose point read succeeded, the request handler makes
\* exactly one publish, a response on "sampleapp/getSpeed/response" whose
\* result.status is 0.
C2_StatusZeroOnSuccessfulRead ==
    /\ \A i \in 1..Len(published) :
           published[i].handler = ON_GET_SPEED_REQUEST =>
               /\ published[i].topic = "sampleapp/getSpeed/response"
               /\ Reading[published[i].payload].isResponse
               /\ Reading[published[i].payload].status = 0
    /\ \A j \in 1..Len(reads) :
           reads[j].ok =>
               /\ Cardinality(PublishedBy(ON_GET_SPEED_REQUEST, reads[j].req)) <= 1
               /\ RequestHandlerDone(reads[j].req) =>
                      Cardinality(PublishedBy(ON_GET_SPEED_REQUEST, reads[j].req)) = 1

\* C2's case: a request's read has succeeded and its handler has ended.
C2_Witness ==
    \E j \in 1..Len(reads) :
        /\ reads[j].ok
        /\ RequestHandlerDone(reads[j].req)
        /\ PublishedBy(ON_GET_SPEED_REQUEST, reads[j].req) # {}

\* The responses: the publish calls of the request handler.
Responses == {i \in 1..Len(published) : published[i].handler = ON_GET_SPEED_REQUEST}

\* The value the read of response i's request returned.
ValueRead(i) ==
    reads[CHOOSE j \in ReadsOf(published[i].cause) : reads[j].ok].value

TrialsOf(n) == {j \in 1..Len(trials) : trials[j].cause = n}

\* C4: an invocation of on_crashed_change whose trial is true makes exactly one
\* publish, of {"crashed ": true} on "sampleapp/crashed"; one whose trial is
\* false makes none.  No message with a crashed value of false is published on
\* any topic.
C4_CrashPublishedIffTrialTrue ==
    /\ \A j \in 1..Len(trials) :
           Cardinality(PublishedBy(ON_CRASHED_CHANGE, trials[j].cause))
               = IF trials[j].crashed THEN 1 ELSE 0
    /\ \A i \in 1..Len(published) :
           /\ published[i].handler = ON_CRASHED_CHANGE =>
                  /\ published[i].topic = "sampleapp/crashed"
                  /\ published[i].payload
                         = <<"{","\"","c","r","a","s","h","e","d"," ","\"",":"," ",
                             "t","r","u","e","}">>
           /\ ~(/\ Reading[published[i].payload].isCrashed
                /\ Reading[published[i].payload].crashed = FALSE)

\* C4's case: one trial was true and one was false, for different speeds.
C4_Witness ==
    \E j, k \in 1..Len(trials) :
        /\ trials[j].crashed /\ ~trials[k].crashed
        /\ changes[trials[j].cause].value # changes[trials[k].cause].value

\* C5: the process ends on SIGTERM and for no other reason, and then cleanly:
\* main() reaches no error after vehicle_app.run() completes, and the SIGTERM
\* handler ends the process without an error.
C5_EndsOnlyOnSigtermCleanly ==
    exit # "none" => (sigterm /\ exit = "clean")

\* C6: every message published is on one of the three output topics, with the
\* payload form of its topic: {"speed": <number>} on "sampleapp/currentSpeed",
\* {"crashed ": <boolean>} on "sampleapp/crashed", {"result": {"status": <int>,
\* "message": <string>}} on "sampleapp/getSpeed/response"; nothing is published
\* on the request topic "sampleapp/getSpeed".
C6_TopicsAndPayloadForms ==
    \A i \in 1..Len(published) :
        LET m == published[i]
            r == Reading[m.payload]
        IN  /\ m.topic \in {"sampleapp/currentSpeed", "sampleapp/crashed",
                            "sampleapp/getSpeed/response"}
            /\ m.topic # "sampleapp/getSpeed"
            /\ m.topic = "sampleapp/currentSpeed" =>
                   r.isSpeed /\ ~r.isCrashed /\ ~r.isResponse
            /\ m.topic = "sampleapp/crashed" =>
                   r.isCrashed /\ ~r.isSpeed /\ ~r.isResponse
            /\ m.topic = "sampleapp/getSpeed/response" =>
                   r.isResponse /\ ~r.isSpeed /\ ~r.isCrashed

\* C6's case: all three topics have been published on.
C6_Witness ==
    /\ PublishedOn("sampleapp/currentSpeed") # {}
    /\ PublishedOn("sampleapp/crashed") # {}
    /\ PublishedOn("sampleapp/getSpeed/response") # {}

\* Every notification delivered has been handled to its end.
Quiescent ==
    /\ \A c \in Callbacks : streams[c] = <<>>
    /\ speedTask = <<>>

\* The records of the speed logger for the notification of change n.
LoggedFor(n) == {j \in 1..Len(speedLog) : speedLog[j].cause = n}

\* C8: a signal change made once on_start has completed drives on_speed_change
\* and on_crashed_change exactly once each, with exactly one speed publish and
\* at most one crash publish; before on_start's first subscribe no callback is
\* registered and nothing is published on the speed and crash topics; if the
\* first subscribe fails the second subscription is never made.
C8_SubscriptionsDriveBothHandlers ==
    /\ \A n \in 1..Len(changes) :
           /\ Cardinality(LoggedFor(n)) <= 1
           /\ Cardinality(TrialsOf(n)) <= 1
           /\ Cardinality(PublishedBy(ON_SPEED_CHANGE, n)) <= 1
           /\ Cardinality(PublishedBy(ON_CRASHED_CHANGE, n)) <= 1
           /\ (changes[n].started /\ Quiescent) =>
                  /\ Cardinality(LoggedFor(n)) = 1
                  /\ Cardinality(TrialsOf(n)) = 1
                  /\ Cardinality(PublishedBy(ON_SPEED_CHANGE, n)) = 1
    /\ onStartPc \in {"idle", "subscribe_speed"} =>
           /\ subs = <<>>
           /\ speedLog = <<>> /\ trials = <<>>
           /\ PublishedOn("sampleapp/currentSpeed") = {}
           /\ PublishedOn("sampleapp/crashed") = {}
    /\ (subscribeCalls # <<>> /\ ~subscribeCalls[1].ok) =>
           /\ Len(subscribeCalls) = 1
           /\ subs = <<>>
           /\ \A n \in 1..Len(changes) : changes[n].notified = {}

\* C8's case: a change made after on_start completed has been handled by both
\* handlers, and one made before on_start's first subscribe by neither.
C8_Witness ==
    /\ Quiescent
    /\ \E n \in 1..Len(changes) :
           /\ changes[n].started
           /\ LoggedFor(n) # {} /\ TrialsOf(n) # {}
    /\ \E n \in 1..Len(changes) :
           /\ changes[n].notified = {}
           /\ LoggedFor(n) = {} /\ TrialsOf(n) = {}

SpeedNotificationsTaken ==
    Cardinality({n \in 1..Len(changes) : ON_SPEED_CHANGE \in changes[n].notified})
        - Len(streams[ON_SPEED_CHANGE])

\* C10: on_speed_change writes its log record before it publishes: every speed
\* publish, failed ones too, has a record of the speed logger for the same
\* notification and value, already while the publish is pending; and only
\* on_speed_change writes to the speed logger, once per notification.
C10_LoggedBeforePublished ==
    /\ \A i \in 1..Len(published) :
           published[i].topic = "sampleapp/currentSpeed" =>
               \E j \in LoggedFor(published[i].cause) :
                   speedLog[j].message
                       = <<"v","e","h","i","c","l","e","_","s","p","e","e","d"," ">>
                             \o PyStr(Reading[published[i].payload].speed)
    /\ \A t \in Range(speedTask) :
           /\ LoggedFor(t.id) # {}
           /\ PublishedBy(ON_SPEED_CHANGE, t.id) = {}
    /\ Len(speedLog) = SpeedNotificationsTaken
    /\ \A j \in 1..Len(speedLog) :
           /\ speedLog[j].cause \in 1..Len(changes)
           /\ speedLog[j].message
                  = <<"v","e","h","i","c","l","e","_","s","p","e","e","d"," ">>
                        \o PyStr(changes[speedLog[j].cause].value)

\* C10's case: a speed publish failed and its log record is there, while the
\* crash simulator and the request handler have run too.
C10_Witness ==
    /\ \E i \in 1..Len(published) :
           /\ published[i].topic = "sampleapp/currentSpeed"
           /\ ~published[i].ok
           /\ LoggedFor(published[i].cause) # {}
    /\ trials # <<>>
    /\ reads # <<>>

=============================================================================
